---- MODULE Spec2Model ----
(***************************************************************************)
(* Model of moe.bandit.epsilon_greedy.EpsilonGreedy.allocate_arms.         *)
(*                                                                         *)
(* Python's float64 values are modelled as exact rationals in lowest       *)
(* terms, [num |-> n, den |-> d] with d > 0, so that equality of two       *)
(* values is equality of the records.  An arm name "arm<i>" is modelled by *)
(* the integer i; the order of the integers is the order of the strings.   *)
(* Python objects live in a heap: a variable holds a reference (an index   *)
(* into heap), so that two names bound to one dictionary share its state.  *)
(***************************************************************************)
EXTENDS Integers, Sequences, FiniteSets, TLC

\* ------------------------------------------------------------- bounds
\* The arms of arms_sampled are among "arm1" .. "arm<MaxArms>".
MaxArms == 3
\* The trials recorded in historical_info, over all its arms.
MaxTrials == 2
\* The epsilons of the model are the multiples of 1/EpsDen from -1/EpsDen to 1.
EpsDen == 4

\* ------------------------------------------------------------- rationals
Abs(x) == IF x < 0 THEN -x ELSE x

RECURSIVE GCD(_, _)
GCD(a, b) == IF b = 0 THEN a ELSE GCD(b, a % b)

\* n / d for integers n and d > 0, in lowest terms.
Rat(n, d) ==
    LET g == GCD(Abs(n), d)
    IN  [num |-> n \div g, den |-> d \div g]

RatAdd(a, b) == Rat(a.num * b.den + b.num * a.den, a.den * b.den)

RatSub(a, b) == Rat(a.num * b.den - b.num * a.den, a.den * b.den)

\* a / k for a rational a and an integer k > 0.
RatDivInt(a, k) == Rat(a.num, a.den * k)

RatLess(a, b) == a.num * b.den < b.num * a.den

Zero == Rat(0, 1)

One == Rat(1, 1)

\* ------------------------------------------------------------- inputs
\* The arm names: those of the docstring's example are always among them.
ArmNames == 1..MaxArms

\* The SampledArms of at most budget trials: total >= win and total >= loss.
SampledArms(budget) ==
    { [win |-> x[1], loss |-> x[2], total |-> x[3]] :
        x \in { y \in (0..budget) \X (0..budget) \X (0..budget) :
                    y[1] <= y[3] /\ y[2] <= y[3] } }

\* The dictionaries arm name -> SampledArm over keys, of at most budget trials in all.
RECURSIVE DictsOver(_, _)
DictsOver(keys, budget) ==
    IF keys = {} THEN { <<>> }
    ELSE LET k == CHOOSE x \in keys : TRUE
         IN  UNION { { (k :> a) @@ d : d \in DictsOver(keys \ {k}, budget - a.total) } :
                       a \in SampledArms(budget) }

\* The arms of the docstring's example: arm1 and arm2 of average payoff 0.5, arm3 new.
DocArmsSampled ==
    (1 :> [win |-> 1, loss |-> 0, total |-> 2]) @@
    (2 :> [win |-> 1, loss |-> 0, total |-> 2]) @@
    (3 :> [win |-> 0, loss |-> 0, total |-> 0])

\* The epsilon of the docstring's example, 0.12.
DocEpsilon == Rat(3, 25)

\* The dictionaries arms_sampled can be.
ArmsSampledDicts ==
    UNION { DictsOver(keys, MaxTrials) : keys \in SUBSET ArmNames } \cup { DocArmsSampled }

\* The epsilons a caller passes: the constructor checks no range.
EpsilonValues ==
    { Rat(n, EpsDen) : n \in (-1)..EpsDen } \cup { DocEpsilon }

\* HistoricalInfo.num_arms: the number of arms of arms_sampled.
NumArmsOf(d) == Cardinality(DOMAIN d)

\* ------------------------------------------------------------- state
VARIABLES
    heap,                      \* the dictionaries, by reference
    historical_info,           \* self._historical_info: [arms_sampled, num_arms]
    epsilon,                   \* self._epsilon
    pc,                        \* "ready", "returned" or "raised"
    exception,                 \* the exception allocate_arms raised, "none" if none
    avg_payoff_arm_name_list,  \* local of allocate_arms, after the sort
    winning_arm_name_list,     \* local of allocate_arms
    arms_to_allocations,       \* local of allocate_arms: a reference, 0 unbound
    result                     \* the reference returned, 0 if none

vars == <<heap, historical_info, epsilon, pc, exception, avg_payoff_arm_name_list,
          winning_arm_name_list, arms_to_allocations, result>>

\* The reference of the dictionary historical_info.arms_sampled.
ArmsSampledRef == 1

Init ==
    /\ \E d \in ArmsSampledDicts :
          /\ heap = <<d>>
          /\ historical_info = [arms_sampled |-> ArmsSampledRef, num_arms |-> NumArmsOf(d)]
    /\ epsilon \in EpsilonValues
    /\ pc = "ready"
    /\ exception = "none"
    /\ avg_payoff_arm_name_list = <<>>
    /\ winning_arm_name_list = <<>>
    /\ arms_to_allocations = 0
    /\ result = 0

\* ------------------------------------------------------------- allocate_arms
\* The check left out: no dictionary is taken for empty.
NeverFalsy(d) == FALSE

\* `not arms_sampled`: a dictionary is false when it has no key.
IsFalsy(d) == DOMAIN d = {}

\* The sequences that list every element of a set once.
OrdersOf ==
    [S \in SUBSET ArmNames |->
        { s \in [1..Cardinality(S) -> S] :
            \A i, j \in 1..Cardinality(S) : i # j => s[i] # s[j] }]

\* The orders in which a dictionary's keys can be iterated.
IterationOrders(d) == OrdersOf[DOMAIN d]

\* The losses left out: win / total if total > 0 else 0.
WinRate(sampled_arm) ==
    IF sampled_arm.total > 0
    THEN Rat(sampled_arm.win, sampled_arm.total)
    ELSE Zero

\* (win - loss) / total if total > 0 else 0
avg_payoff(sampled_arm) ==
    IF sampled_arm.total > 0
    THEN Rat(sampled_arm.win - sampled_arm.loss, sampled_arm.total)
    ELSE Zero

\* The list of (avg_payoff, arm_name) built by the first loop, in iteration order.
PayoffList(d, order) ==
    [i \in 1..Len(order) |-> <<avg_payoff(d[order[i]]), order[i]>>]

\* Python's tuple order on (avg_payoff, arm_name): a < b.
TupleLess(a, b) ==
    \/ RatLess(a[1], b[1])
    \/ a[1] = b[1] /\ a[2] < b[2]

RECURSIVE InsertDescending(_, _)
InsertDescending(x, s) ==
    IF s = <<>> THEN <<x>>
    ELSE IF TupleLess(Head(s), x) THEN <<x>> \o s
    ELSE <<Head(s)>> \o InsertDescending(x, Tail(s))

RECURSIVE SortDescending(_)
SortDescending(s) ==
    IF s = <<>> THEN <<>>
    ELSE InsertDescending(Head(s), SortDescending(Tail(s)))

\* The list reversed.
Reversed(s) == [i \in 1..Len(s) |-> s[Len(s) + 1 - i]]

\* A sort that forgets reverse=True: ascending.
SortAscending(s) == Reversed(SortDescending(s))

\* No sort at all: the list stays in iteration order.
SortOmitted(s) == s

\* avg_payoff_arm_name_list.sort(reverse=True)
SortReverse(s) == SortDescending(s)

\* best_payoff, _ = avg_payoff_arm_name_list[0]
BestPayoff(sorted) == sorted[1][1]

\* A filter that keeps the first pair only: ties for best are not shared.
FirstPairOnly(sorted) == <<sorted[1]>>

\* filter(lambda t: t[0] == best_payoff, avg_payoff_arm_name_list)
WinningArmPayoffNameList(sorted) ==
    SelectSeq(sorted, LAMBDA t : t[1] = BestPayoff(sorted))

\* _, winning_arm_name_list = map(list, zip(*winning_arm_payoff_name_list))
WinningArmNameList(sorted) ==
    LET w == WinningArmPayoffNameList(sorted)
    IN  [i \in 1..Len(w) |-> w[i][2]]

\* An epsilon not split among the arms.
EpsilonAllocationUnsplit(eps, num_arms) == eps

\* epsilon_allocation = self._epsilon / num_arms
EpsilonAllocation(eps, num_arms) == RatDivInt(eps, num_arms)

\* The exploitation budget with its sign turned: (epsilon - 1.0) / num_winning_arms.
WinningArmAllocationNegated(eps, num_winning_arms) ==
    RatDivInt(RatSub(eps, One), num_winning_arms)

\* The exploitation budget not split among the winning arms.
WinningArmAllocationUnsplit(eps, num_winning_arms) == RatSub(One, eps)

\* winning_arm_allocation = (1.0 - self._epsilon) / num_winning_arms
WinningArmAllocation(eps, num_winning_arms) ==
    RatDivInt(RatSub(One, eps), num_winning_arms)

\* The heap once `{}` has made a new, empty dictionary.
Alloc(h) == Append(h, <<>>)

\* arms_to_allocations = arms_sampled: the name bound to the input, not to the new dictionary.
AliasOfArmsSampled(h) == ArmsSampledRef

\* arms_to_allocations = {}: the reference of the new dictionary.
EmptyDictRef(h) == Len(h) + 1

\* dict[key] = value on the dictionary ref of heap h.
SetItem(h, ref, key, value) ==
    [h EXCEPT ![ref] = (key :> value) @@ h[ref]]

RECURSIVE BaselineLoopFrom(_, _, _, _)
BaselineLoopFrom(h, ref, order, value) ==
    IF order = <<>> THEN h
    ELSE BaselineLoopFrom(SetItem(h, ref, Head(order), value), ref, Tail(order), value)

\* A loop that misses the first key iterated.
BaselineLoopSkipsFirst(h, ref, order, value) ==
    BaselineLoopFrom(h, ref, Tail(order), value)

\* for arm_name in arms_sampled.iterkeys(): arms_to_allocations[arm_name] = epsilon_allocation
BaselineLoop(h, ref, order, value) == BaselineLoopFrom(h, ref, order, value)

\* for winning_arm_name in winning_arm_name_list:
\*     arms_to_allocations[winning_arm_name] += winning_arm_allocation
\* A key the dictionary lacks makes += raise KeyError.
RECURSIVE WinningLoop(_, _, _, _)
WinningLoop(h, ref, names, value) ==
    IF names = <<>> THEN [exception |-> "none", heap |-> h]
    ELSE IF Head(names) \notin DOMAIN h[ref] THEN [exception |-> "KeyError", heap |-> h]
    ELSE WinningLoop(SetItem(h, ref, Head(names), RatAdd(h[ref][Head(names)], value)),
                     ref, Tail(names), value)

\* What a call leaves: the exception raised, the heap, the locals bound so far.
Frame(exc, h, sorted, winners, ref) ==
    [exception |-> exc, heap |-> h, avg_payoff_arm_name_list |-> sorted,
     winning_arm_name_list |-> winners, arms_to_allocations |-> ref]

\* The body of allocate_arms on heap h, the keys of arms_sampled iterated in order.
allocate_arms_body(h, hist, eps, order) ==
    LET arms_sampled == h[hist.arms_sampled]
        num_arms == hist.num_arms
        sorted == SortReverse(PayoffList(arms_sampled, order))
        winners == WinningArmNameList(sorted)
        ref == EmptyDictRef(h)
        baseline == BaselineLoop(Alloc(h), ref, order, EpsilonAllocation(eps, num_arms))
        won == WinningLoop(baseline, ref, winners, WinningArmAllocation(eps, Len(winners)))
    IN  IF IsFalsy(arms_sampled) THEN Frame("ValueError", h, <<>>, <<>>, 0)
        ELSE IF sorted = <<>> THEN Frame("IndexError", h, sorted, <<>>, 0)
        ELSE IF num_arms = 0 THEN Frame("ZeroDivisionError", h, sorted, winners, 0)
        ELSE Frame(won.exception, won.heap, sorted, winners, ref)

allocate_arms ==
    /\ pc = "ready"
    /\ \E order \in IterationOrders(heap[historical_info.arms_sampled]) :
          \E frame \in { allocate_arms_body(heap, historical_info, epsilon, order) } :
              /\ heap' = frame.heap
              /\ exception' = frame.exception
              /\ avg_payoff_arm_name_list' = frame.avg_payoff_arm_name_list
              /\ winning_arm_name_list' = frame.winning_arm_name_list
              /\ arms_to_allocations' = frame.arms_to_allocations
              /\ result' = IF frame.exception = "none" THEN frame.arms_to_allocations ELSE 0
              /\ pc' = IF frame.exception = "none" THEN "returned" ELSE "raised"
    /\ UNCHANGED <<historical_info, epsilon>>

Next == allocate_arms

Spec == Init /\ [][Next]_vars

\* ------------------------------------------------------------- the claims
\* The dictionary the caller passed, and its arms.
ArmsSampled == heap[historical_info.arms_sampled]

Arms == DOMAIN ArmsSampled

Called == pc # "ready"

Returned == pc = "returned"

NonEmpty == Arms # {}

\* The mapping returned.
Allocations == heap[result]

\* epsilon in [0, 1)
EpsilonInRange == 0 <= epsilon.num /\ epsilon.num < epsilon.den

\* An arm's average payoff as a fraction: (win - loss) / total, 0 / 1 when total = 0.
PayoffNum(a) ==
    IF ArmsSampled[a].total > 0 THEN ArmsSampled[a].win - ArmsSampled[a].loss ELSE 0

PayoffDen(a) == IF ArmsSampled[a].total > 0 THEN ArmsSampled[a].total ELSE 1

\* payoff(a) <= payoff(b), payoff(a) = payoff(b)
PayoffLeq(a, b) == PayoffNum(a) * PayoffDen(b) <= PayoffNum(b) * PayoffDen(a)

PayoffEq(a, b) == PayoffNum(a) * PayoffDen(b) = PayoffNum(b) * PayoffDen(a)

\* The arms whose average payoff is the maximum, and the others.
Winners == { a \in Arms : \A b \in Arms : PayoffLeq(b, a) }

NonWinners == Arms \ Winners

NumWinners == Cardinality(Winners)

\* The rational q is n / d.
IsFraction(q, n, d) == q.num * d = n * q.den

RECURSIVE SumOver(_, _)
SumOver(f, S) ==
    IF S = {} THEN Zero
    ELSE LET a == CHOOSE x \in S : TRUE
         IN  RatAdd(f[a], SumOver(f, S \ {a}))

\* C1: after a call on a non-empty historical_info whose num_arms is the number
\* of arms of arms_sampled, with epsilon in [0, 1), the allocations returned sum
\* to 1 over all arms.
C1_SumIsOne ==
    (Called /\ NonEmpty /\ historical_info.num_arms = Cardinality(Arms) /\ EpsilonInRange)
        => /\ Returned
           /\ SumOver(Allocations, DOMAIN Allocations) = One

C1_Witness ==
    /\ Returned /\ EpsilonInRange /\ epsilon.num > 0
    /\ Cardinality(Arms) = 3 /\ NumWinners = 2
    /\ SumOver(Allocations, DOMAIN Allocations) = One

\* C2: after a call on a non-empty input every arm has exactly epsilon/num_arms
\* if its average payoff is below the maximum, and epsilon/num_arms +
\* (1-epsilon)/num_winning_arms if it is the maximum; the winning arms are the
\* arms of maximum average payoff; the docstring's example (two arms of payoff
\* 0.5, one new arm, epsilon 0.12) gives 0.48, 0.48, 0.04.
C2_ExactAllocation ==
    (Called /\ NonEmpty) =>
        /\ Returned
        /\ { winning_arm_name_list[i] : i \in 1..Len(winning_arm_name_list) } = Winners
        /\ Len(winning_arm_name_list) = NumWinners
        /\ \A a \in Arms :
              /\ a \in DOMAIN Allocations
              /\ IsFraction(Allocations[a],
                            epsilon.num * NumWinners
                              + (IF a \in Winners
                                 THEN (epsilon.den - epsilon.num) * historical_info.num_arms
                                 ELSE 0),
                            epsilon.den * historical_info.num_arms * NumWinners)
        /\ (ArmsSampled = DocArmsSampled /\ epsilon = DocEpsilon)
              => Allocations = (1 :> Rat(12, 25)) @@ (2 :> Rat(12, 25)) @@ (3 :> Rat(1, 25))

C2_Witness ==
    /\ Returned /\ ArmsSampled = DocArmsSampled /\ epsilon = DocEpsilon
    /\ Allocations[1] = Rat(12, 25) /\ Allocations[3] = Rat(1, 25)

\* C3: after a call on a non-empty input the keys of the mapping returned are
\* exactly the arm identifiers of arms_sampled.
C3_KeysAreTheArms ==
    (Called /\ NonEmpty) => (Returned /\ DOMAIN Allocations = Arms)

C3_Witness ==
    Returned /\ Arms = {1, 3} /\ DOMAIN Allocations = {1, 3}

\* C4: a call raises exactly when arms_sampled is empty; the exception is then
\* ValueError, no mapping is returned, and no payoff list, winning list or
\* allocation dictionary has been made.
C4_EmptyInputRaises ==
    Called =>
        /\ (pc = "raised") <=> ~NonEmpty
        /\ (pc = "raised") =>
              /\ exception = "ValueError"
              /\ result = 0
              /\ arms_to_allocations = 0
              /\ avg_payoff_arm_name_list = <<>>
              /\ winning_arm_name_list = <<>>
              /\ Len(heap) = 1
        /\ Returned => exception = "none"

C4_Witness ==
    pc = "raised" /\ ~NonEmpty /\ exception = "ValueError" /\ result = 0

\* C5: after a call on a non-empty input with epsilon in [0, 1), every
\* allocation returned is >= 0.
C5_NonNegative ==
    (Called /\ NonEmpty /\ EpsilonInRange) =>
        /\ Returned
        /\ \A a \in DOMAIN Allocations : Allocations[a].num >= 0

C5_Witness ==
    /\ Returned /\ EpsilonInRange /\ epsilon.num > 0 /\ NonWinners # {}
    /\ \A a \in DOMAIN Allocations : Allocations[a].num > 0

\* C6: with epsilon = 0, after a call on a non-empty input every winning arm
\* has exactly 1/num_winning_arms and every other arm exactly 0.
C6_ZeroEpsilon ==
    (Called /\ NonEmpty /\ epsilon = Zero) =>
        /\ Returned
        /\ \A a \in Arms :
              /\ a \in DOMAIN Allocations
              /\ a \in Winners => IsFraction(Allocations[a], 1, NumWinners)
              /\ a \in NonWinners => Allocations[a] = Zero

C6_Witness ==
    /\ Returned /\ epsilon = Zero /\ NumWinners = 2 /\ NonWinners # {}
    /\ \A a \in Winners : Allocations[a] = Rat(1, 2)

WinnersOutweigh ==
    RatLess(SumOver(Allocations, NonWinners), SumOver(Allocations, Winners))

\* C8 as stated: after a call on a non-empty input with a non-winning arm and
\* epsilon in [0, 1), the winning arms' allocations sum to more than the
\* non-winning arms'.
C8_AsStated ==
    (Called /\ NonEmpty /\ EpsilonInRange /\ NonWinners # {})
        => (Returned /\ WinnersOutweigh)

\* C8 as amended: after such a call the winning arms' allocations sum to more
\* than the non-winning arms' exactly when
\* epsilon < num_arms / (2 * (num_arms - num_winning_arms)); every epsilon <= 1/2 is such.
C8_Amended ==
    (Called /\ NonEmpty /\ EpsilonInRange /\ NonWinners # {}) =>
        /\ Returned
        /\ DOMAIN Allocations = Arms
        /\ WinnersOutweigh
              <=> (2 * epsilon.num * (Cardinality(Arms) - NumWinners)
                     < epsilon.den * Cardinality(Arms))
        /\ 2 * epsilon.num <= epsilon.den => WinnersOutweigh

C8_Witness ==
    /\ Returned /\ epsilon = Rat(1, 2) /\ Cardinality(Arms) = 3 /\ NumWinners = 1
    /\ WinnersOutweigh

\* C9: a call, returning or raising, leaves arms_sampled (its keys and every
\* arm's win, loss and total), num_arms and epsilon as they were, and the
\* mapping it returns is a dictionary the heap did not hold before.
C9_NoSideEffects ==
    [][ /\ \A r \in 1..Len(heap) : r <= Len(heap') /\ heap'[r] = heap[r]
        /\ historical_info' = historical_info
        /\ epsilon' = epsilon
        /\ result' # 0 => result' \notin 1..Len(heap) ]_vars

C9_Witness ==
    /\ Returned /\ result = 2 /\ Len(heap) = 2 /\ Cardinality(Arms) = 3
    /\ \A a \in Arms : ArmsSampled[a].total >= ArmsSampled[a].win

\* The heap the call started from.
HeapBefore == <<heap[ArmsSampledRef]>>

\* C10: after a call on a non-empty input, a call iterating the arms in any
\* order returns the mapping this call returned and finds the same winning arms.
C10_OrderIndependent ==
    (Called /\ NonEmpty) =>
        /\ Returned
        /\ \A order \in IterationOrders(ArmsSampled) :
              \A frame \in { allocate_arms_body(HeapBefore, historical_info, epsilon, order) } :
                  /\ frame.exception = "none"
                  /\ frame.heap[frame.arms_to_allocations] = Allocations
                  /\ { frame.winning_arm_name_list[i] :
                         i \in 1..Len(frame.winning_arm_name_list) }
                       = { winning_arm_name_list[i] : i \in 1..Len(winning_arm_name_list) }

C10_Witness ==
    /\ Returned /\ Cardinality(Arms) = 3 /\ NumWinners = 2
    /\ ~PayoffEq(1, 2) /\ ~PayoffEq(1, 3)
    /\ Cardinality(IterationOrders(ArmsSampled)) = 6

====
